---- MODULE Spec2Model ----
(***************************************************************************)
(* Model of the MCP server template: the server module registers two       *)
(* tools, two resources and two prompts on a FastMCP object while it is    *)
(* imported, main.py then starts the runtime loop, and the hosting runtime *)
(* invokes the registered handlers.  Text is a sequence of one-character   *)
(* strings, so that concatenation and substring search are computed.       *)
(***************************************************************************)
EXTENDS Integers, Sequences, FiniteSets, Bags, TLC

VARIABLES pc, tools, resources, prompts, calls

vars == <<pc, tools, resources, prompts, calls>>

(* ------------------------------ bounds --------------------------------- *)
MaxInt == 1
MaxLen == 1
MaxCalls == 2

Alphabet == {"e", "{"}

(* ------------------------- text helpers -------------------------------- *)
RECURSIVE JoinedStr(_)
\* An f-string: the concatenation of its literal and formatted parts, in order.
JoinedStr(parts) ==
    IF parts = <<>> THEN <<>> ELSE Head(parts) \o JoinedStr(Tail(parts))

\* Python's `sub in s` on strings.
Contains(s, sub) ==
    \E i \in 0..(Len(s) - Len(sub)) : SubSeq(s, i + 1, i + Len(sub)) = sub

BoundedStr == UNION {[1..n -> Alphabet] : n \in 0..MaxLen}

(* ------------------- literals of server.py ----------------------------- *)
YouSaidLit == <<"Y","o","u"," ","s","a","i","d",":"," ">>
ConfigText == <<"T","h","i","s"," ","i","s"," ","t","h","e"," ","a","p","p","l","i","c","a","t","i","o","n"," ","c","o","n","f","i","g","u","r","a","t","i","o","n"," ","d","a","t","a">>
HelloLit == <<"H","e","l","l","o",","," ">>
WelcomeLit == <<"!"," ","W","e","l","c","o","m","e"," ","t","o"," ","t","h","e"," ","M","C","P"," ","s","e","r","v","e","r",".">>
ReviewLit == <<"P","l","e","a","s","e"," ","r","e","v","i","e","w"," ","t","h","i","s"," ","c","o","d","e"," ","a","n","d"," ","p","r","o","v","i","d","e"," ","f","e","e","d","b","a","c","k",":","\n","\n">>
ExplainPre == <<"P","l","e","a","s","e"," ","e","x","p","l","a","i","n"," ","t","h","e"," ","c","o","n","c","e","p","t"," ","o","f"," ","'">>
ExplainPost == <<"'"," ","i","n"," ","s","i","m","p","l","e"," ","t","e","r","m","s"," ","w","i","t","h"," ","e","x","a","m","p","l","e","s",".">>
ConfigUri == <<"c","o","n","f","i","g",":","/","/","a","p","p">>
GreetingUri_user == <<"g","r","e","e","t","i","n","g",":","/","/","{","u","s","e","r","}">>
GreetingUri == <<"g","r","e","e","t","i","n","g",":","/","/","{","n","a","m","e","}">>

(* ------------------- literals of test_server.py ------------------------ *)
TestHello == <<"H","e","l","l","o">>
TestAlice == <<"A","l","i","c","e">>
TestRecursion == <<"r","e","c","u","r","s","i","o","n">>
TestCode == <<"d","e","f"," ","h","e","l","l","o","(",")",":"," ","p","r","i","n","t","(","'","w","o","r","l","d","'",")">>
TestAddArgs == <<2, 3>>

(* --------------------------- handlers ---------------------------------- *)
add_numbers_minus(a, b) == a - b
add_numbers(a, b) == a + b

echo_message_nospace(message) ==
    JoinedStr(<< <<"Y","o","u"," ","s","a","i","d",":">>, message >>)
\* A handler that keeps the text of whichever request is being served in a
\* module-level buffer shared by every invocation in flight.
echo_message_shared(message) ==
    LET others == {c \in BagToSet(calls) : /\ c.st = "running"
                                           /\ c.kind = "tool"
                                           /\ Len(c.args) = 1
                                           /\ c.args # <<message>>}
    IN IF others = {} THEN JoinedStr(<<YouSaidLit, message>>)
       ELSE JoinedStr(<<YouSaidLit, (CHOOSE c \in others : TRUE).args[1]>>)
echo_message(message) == JoinedStr(<<YouSaidLit, message>>)

get_config_short ==
    <<"T","h","i","s"," ","i","s"," ","t","h","e"," ","a","p","p","l","i","c","a","t","i","o","n"," ","c","o","n","f","i","g"," ","d","a","t","a">>
get_config == ConfigText

get_greeting_nocomma(name) ==
    JoinedStr(<< <<"H","e","l","l","o"," ">>, name, WelcomeLit >>)
get_greeting(name) == JoinedStr(<<HelloLit, name, WelcomeLit>>)

review_code_nocode(code) == ReviewLit
review_code(code) == JoinedStr(<<ReviewLit, code>>)

explain_concept_cap(concept) ==
    JoinedStr(<< <<"P","l","e","a","s","e"," ","E","x","p","l","a","i","n"," ","t","h","e"," ","c","o","n","c","e","p","t"," ","o","f"," ","'">>,
                 concept, ExplainPost >>)
explain_concept(concept) == JoinedStr(<<ExplainPre, concept, ExplainPost>>)

\* The __name__ of each function object.
FnName(fn) ==
    CASE fn = "add_numbers"     -> <<"a","d","d","_","n","u","m","b","e","r","s">>
      [] fn = "echo_message"    -> <<"e","c","h","o","_","m","e","s","s","a","g","e">>
      [] fn = "get_config"      -> <<"g","e","t","_","c","o","n","f","i","g">>
      [] fn = "get_greeting"    -> <<"g","e","t","_","g","r","e","e","t","i","n","g">>
      [] fn = "review_code"     -> <<"r","e","v","i","e","w","_","c","o","d","e">>
      [] fn = "explain_concept" -> <<"e","x","p","l","a","i","n","_","c","o","n","c","e","p","t">>

\* Declared parameters of each handler (its signature).
Params(fn) ==
    CASE fn = "add_numbers"     -> <<<<"a">>, <<"b">>>>
      [] fn = "echo_message"    -> <<<<"m","e","s","s","a","g","e">>>>
      [] fn = "get_config"      -> <<>>
      [] fn = "get_greeting"    -> <<<<"n","a","m","e">>>>
      [] fn = "review_code"     -> <<<<"c","o","d","e">>>>
      [] fn = "explain_concept" -> <<<<"c","o","n","c","e","p","t">>>>

\* Calling the function object fn with positional arguments args.
Apply(fn, args) ==
    CASE fn = "add_numbers"     -> add_numbers(args[1], args[2])
      [] fn = "echo_message"    -> echo_message(args[1])
      [] fn = "get_config"      -> get_config
      [] fn = "get_greeting"    -> get_greeting(args[1])
      [] fn = "review_code"     -> review_code(args[1])
      [] fn = "explain_concept" -> explain_concept(args[1])

\* The arguments the host may pass to fn, within the bounds.
ArgsOf(fn) ==
    CASE fn = "add_numbers"     -> ((-MaxInt..MaxInt) \X (-MaxInt..MaxInt)) \cup {TestAddArgs}
      [] fn = "echo_message"    -> {<<m>> : m \in BoundedStr \cup {TestHello}}
      [] fn = "get_config"      -> {<<>>}
      [] fn = "get_greeting"    -> {<<n>> : n \in BoundedStr \cup {TestAlice}}
      [] fn = "review_code"     -> {<<c>> : c \in BoundedStr \cup {TestCode}}
      [] fn = "explain_concept" -> {<<c>> : c \in BoundedStr \cup {TestRecursion}}

(* ------------------------- URI templates ------------------------------- *)
WordChars ==
    {"a","b","c","d","e","f","g","h","i","j","k","l","m","n","o","p","q","r",
     "s","t","u","v","w","x","y","z","0","1","2","3","4","5","6","7","8","9","_"}

\* The named placeholders of a URI template: every {word} group in it.
UriParams(uri) ==
    LET opens  == {i \in 1..Len(uri) : uri[i] = "{"}
        closes == {j \in 1..Len(uri) : uri[j] = "}"}
        groups == {p \in opens \X closes :
                      /\ p[1] + 1 < p[2]
                      /\ \A k \in (p[1] + 1)..(p[2] - 1) : uri[k] \in WordChars}
    IN {SubSeq(uri, p[1] + 1, p[2] - 1) : p \in groups}

(* --------------------------- registry ---------------------------------- *)
EmptyMap == [x \in {} |-> "none"]

\* An entry is stored under its key; a key already present keeps its first
\* binding.
Bind(map, key, fn) == IF key \in DOMAIN map THEN map ELSE map @@ (key :> fn)

\* @mcp.tool() and @mcp.prompt() without a name: keyed by the function's name.
BindByName(map, fn) == Bind(map, FnName(fn), fn)

Init ==
    /\ pc = "mcp_init"
    /\ tools = EmptyMap
    /\ resources = EmptyMap
    /\ prompts = EmptyMap
    /\ calls = EmptyBag

\* server.py:13  mcp = FastMCP(...)
mcp_init ==
    /\ pc = "mcp_init"
    /\ pc' = "def_add_numbers"
    /\ tools' = EmptyMap /\ resources' = EmptyMap /\ prompts' = EmptyMap
    /\ UNCHANGED calls

def_add_numbers ==
    /\ pc = "def_add_numbers"
    /\ tools' = BindByName(tools, "add_numbers")
    /\ pc' = "def_echo_message"
    /\ UNCHANGED <<resources, prompts, calls>>

def_echo_message_dup ==
    /\ pc = "def_echo_message"
    /\ tools' = Bind(tools, FnName("add_numbers"), "echo_message")
    /\ pc' = "def_get_config"
    /\ UNCHANGED <<resources, prompts, calls>>
def_echo_message ==
    /\ pc = "def_echo_message"
    /\ tools' = BindByName(tools, "echo_message")
    /\ pc' = "def_get_config"
    /\ UNCHANGED <<resources, prompts, calls>>

def_get_config ==
    /\ pc = "def_get_config"
    /\ resources' = Bind(resources, ConfigUri, "get_config")
    /\ pc' = "def_get_greeting"
    /\ UNCHANGED <<tools, prompts, calls>>

def_get_greeting ==
    /\ pc = "def_get_greeting"
    /\ resources' = Bind(resources, GreetingUri, "get_greeting")
    /\ pc' = "def_review_code"
    /\ UNCHANGED <<tools, prompts, calls>>

def_review_code ==
    /\ pc = "def_review_code"
    /\ prompts' = BindByName(prompts, "review_code")
    /\ pc' = "def_explain_concept"
    /\ UNCHANGED <<tools, resources, calls>>

def_explain_concept ==
    /\ pc = "def_explain_concept"
    /\ prompts' = BindByName(prompts, "explain_concept")
    /\ pc' = "loaded"
    /\ UNCHANGED <<tools, resources, calls>>

\* main.py:19-20  the entry point starts the runtime loop after the import.
run ==
    /\ pc = "loaded"
    /\ pc' = "serving"
    /\ UNCHANGED <<tools, resources, prompts, calls>>

(* ------------------- invocations by the host --------------------------- *)
\* The host accepts a request for the capability (kind, id), bound to fn.
\* The result of an invocation is <<>> until the handler returned, then <<r>>.
Start(kind, id, fn) ==
    /\ pc = "serving"
    /\ BagCardinality(calls) < MaxCalls
    /\ \E args \in ArgsOf(fn) :
          calls' = calls (+) SetToBag({[st |-> "running", kind |-> kind, id |-> id,
                                        args |-> args, result |-> <<>>]})
    /\ UNCHANGED <<pc, tools, resources, prompts>>

call_tool == \E id \in DOMAIN tools : Start("tool", id, tools[id])

read_resource == \E id \in DOMAIN resources : Start("resource", id, resources[id])

get_prompt == \E id \in DOMAIN prompts : Start("prompt", id, prompts[id])

Registered(kind, id) ==
    CASE kind = "tool"     -> tools[id]
      [] kind = "resource" -> resources[id]
      [] kind = "prompt"   -> prompts[id]

Returned(c) ==
    [c EXCEPT !.st = "done", !.result = <<Apply(Registered(c.kind, c.id), c.args)>>]

\* A handler that registers one more tool each time it is served.
return_registers ==
    \E c \in BagToSet(calls) :
        /\ c.st = "running"
        /\ calls' = (calls (-) SetToBag({c})) (+) SetToBag({Returned(c)})
        /\ tools' = Bind(tools, FnName("get_config"), "get_config")
        /\ UNCHANGED <<pc, resources, prompts>>
\* The handler body runs to completion: one return expression.
return ==
    \E c \in BagToSet(calls) :
        /\ c.st = "running"
        /\ calls' = (calls (-) SetToBag({c})) (+) SetToBag({Returned(c)})
        /\ UNCHANGED <<pc, tools, resources, prompts>>

\* The host sends the response of a finished invocation and forgets it.
respond ==
    \E c \in BagToSet(calls) :
        /\ c.st = "done"
        /\ calls' = calls (-) SetToBag({c})
        /\ UNCHANGED <<pc, tools, resources, prompts>>

Next ==
    \/ mcp_init
    \/ def_add_numbers
    \/ def_echo_message
    \/ def_get_config
    \/ def_get_greeting
    \/ def_review_code
    \/ def_explain_concept
    \/ run
    \/ call_tool
    \/ read_resource
    \/ get_prompt
    \/ return
    \/ respond

Spec == Init /\ [][Next]_vars

(* ============================ properties =============================== *)
\* The texts the properties speak of, spelled out independently of the handlers.
SaidPrefix == <<"Y","o","u"," ","s","a","i","d",":"," ">>
SaidHello == <<"Y","o","u"," ","s","a","i","d",":"," ","H","e","l","l","o">>
HelloPrefix == <<"H","e","l","l","o",","," ">>
HelloAlice == <<"H","e","l","l","o",","," ","A","l","i","c","e","!">>
ReviewPhrase == <<"r","e","v","i","e","w"," ","t","h","i","s"," ","c","o","d","e">>
ExplainWord == <<"e","x","p","l","a","i","n">>
ConfigurationWord == <<"c","o","n","f","i","g","u","r","a","t","i","o","n">>
FixedConfig == <<"T","h","i","s"," ","i","s"," ","t","h","e"," ","a","p","p","l","i","c","a","t","i","o","n"," ","c","o","n","f","i","g","u","r","a","t","i","o","n"," ","d","a","t","a">>
UriConfigApp == <<"c","o","n","f","i","g",":","/","/","a","p","p">>
UriGreetingName == <<"g","r","e","e","t","i","n","g",":","/","/","{","n","a","m","e","}">>
NameParam == <<"n","a","m","e">>

NameAddNumbers == <<"a","d","d","_","n","u","m","b","e","r","s">>
NameEchoMessage == <<"e","c","h","o","_","m","e","s","s","a","g","e">>
NameReviewCode == <<"r","e","v","i","e","w","_","c","o","d","e">>
NameExplainConcept == <<"e","x","p","l","a","i","n","_","c","o","n","c","e","p","t">>

\* The finished invocations of the capability (kind, id) the host still holds.
Done(kind, id) ==
    {c \in BagToSet(calls) : c.st = "done" /\ c.kind = kind /\ c.id = id}

Range(f) == {f[i] : i \in DOMAIN f}

\* C1: every finished add_numbers(a, b) returned the exact integer sum a + b;
\* add_numbers(2, 3) returned 5.
C1_AddNumbersIsSum ==
    \A c \in Done("tool", NameAddNumbers) :
        /\ c.result = <<c.args[1] + c.args[2]>>
        /\ c.args = <<2, 3>> => c.result = <<5>>

C1_Witness ==
    /\ \E c \in Done("tool", NameAddNumbers) : c.args = <<2, 3>>
    /\ \E c \in Done("tool", NameAddNumbers) : c.args = <<-1, 1>>

\* C2: every finished echo_message(message) returned "You said: " followed by
\* the message unchanged and nothing else, the empty message included;
\* echo_message("Hello") returned "You said: Hello".
C2_EchoIsPrefixPlusMessage ==
    \A c \in Done("tool", NameEchoMessage) :
        LET m == c.args[1]
            r == c.result[1]
        IN /\ Len(r) = Len(SaidPrefix) + Len(m)
           /\ SubSeq(r, 1, Len(SaidPrefix)) = SaidPrefix
           /\ SubSeq(r, Len(SaidPrefix) + 1, Len(r)) = m
           /\ m = TestHello => r = SaidHello

C2_Witness ==
    /\ \E c \in Done("tool", NameEchoMessage) : c.args = <<TestHello>>
    /\ \E c \in Done("tool", NameEchoMessage) : c.args = << <<>> >>

\* C3: every finished get_greeting(name) returned a text containing "Hello, ",
\* then the name unchanged, then "!"; for "Alice" it contains "Hello, Alice!".
C3_GreetingContainsHelloName ==
    \A c \in Done("resource", UriGreetingName) :
        LET n == c.args[1]
            r == c.result[1]
        IN /\ Contains(r, HelloPrefix \o n \o <<"!">>)
           /\ n = TestAlice => Contains(r, HelloAlice)

C3_Witness ==
    /\ \E c \in Done("resource", UriGreetingName) : c.args = <<TestAlice>>
    /\ \E c \in Done("resource", UriGreetingName) : c.args = << <<"{">> >>

\* C4: every finished review_code(code) returned a text containing the phrase
\* "review this code" and the code verbatim and contiguous.
C4_ReviewContainsPhraseAndCode ==
    \A c \in Done("prompt", NameReviewCode) :
        /\ Contains(c.result[1], ReviewPhrase)
        /\ Contains(c.result[1], c.args[1])

C4_Witness ==
    \E c \in Done("prompt", NameReviewCode) : c.args = <<TestCode>>

\* C5: every finished explain_concept(concept) returned a text containing the
\* concept verbatim and the lowercase word "explain".
C5_ExplainContainsConceptAndWord ==
    \A c \in Done("prompt", NameExplainConcept) :
        /\ Contains(c.result[1], c.args[1])
        /\ Contains(c.result[1], ExplainWord)

C5_Witness ==
    \E c \in Done("prompt", NameExplainConcept) : c.args = <<TestRecursion>>

\* C6: every finished get_config() took no argument and returned the same
\* fixed text, which contains "configuration", whatever was invoked before or
\* is being served beside it.
C6_ConfigIsFixedText ==
    \A c \in Done("resource", UriConfigApp) :
        /\ c.args = <<>>
        /\ c.result = <<FixedConfig>>
        /\ Contains(c.result[1], ConfigurationWord)

C6_Witness ==
    /\ Done("resource", UriConfigApp) # {}
    /\ Done("tool", NameEchoMessage) # {}

\* The registry holds exactly the six capabilities, each under its own
\* identifier in its own kind and bound to its own handler.
RegistryFull ==
    /\ DOMAIN tools = {NameAddNumbers, NameEchoMessage}
    /\ tools[NameAddNumbers] = "add_numbers"
    /\ tools[NameEchoMessage] = "echo_message"
    /\ DOMAIN resources = {UriConfigApp, UriGreetingName}
    /\ resources[UriConfigApp] = "get_config"
    /\ resources[UriGreetingName] = "get_greeting"
    /\ DOMAIN prompts = {NameReviewCode, NameExplainConcept}
    /\ prompts[NameReviewCode] = "review_code"
    /\ prompts[NameExplainConcept] = "explain_concept"

\* C7: once the module is loaded, and ever after, each kind holds exactly its
\* two identifiers, all distinct, each bound to exactly one handler, and no
\* handler is bound under two identifiers.
C7_IdentifiersUniquePerKind ==
    pc \in {"loaded", "serving"} =>
        /\ RegistryFull
        /\ Cardinality(DOMAIN tools) = 2
        /\ Cardinality(DOMAIN resources) = 2
        /\ Cardinality(DOMAIN prompts) = 2
        /\ Cardinality(Range(tools) \cup Range(resources) \cup Range(prompts)) = 6

C7_Witness ==
    /\ pc = "serving"
    /\ \E c \in BagToSet(calls) : c.st = "done"

\* C8: every registered resource has the placeholders of its URI template
\* equal to the parameters its handler declares: none for config://app and
\* get_config, exactly name for greeting://{name} and get_greeting.
C8_PlaceholdersMatchParameters ==
    /\ \A uri \in DOMAIN resources :
          UriParams(uri) = Range(Params(resources[uri]))
    /\ pc \in {"loaded", "serving"} =>
          /\ UriConfigApp \in DOMAIN resources
          /\ Params(resources[UriConfigApp]) = <<>>
          /\ UriGreetingName \in DOMAIN resources
          /\ Params(resources[UriGreetingName]) = <<NameParam>>

C8_Witness ==
    /\ pc = "loaded"
    /\ Cardinality(DOMAIN resources) = 2

\* C9: the runtime loop starts serving only with all six registrations made,
\* each registration step adds its entry without touching an earlier one, and
\* while serving no step adds, removes or rebinds a registry entry.
C9_PopulatedOnceThenImmutable ==
    [][ /\ pc' = "serving" => RegistryFull'
        /\ pc = "serving" => UNCHANGED <<tools, resources, prompts>>
        /\ \A k \in DOMAIN tools : k \in DOMAIN tools' /\ tools'[k] = tools[k]
        /\ \A k \in DOMAIN resources : k \in DOMAIN resources' /\ resources'[k] = resources[k]
        /\ \A k \in DOMAIN prompts : k \in DOMAIN prompts' /\ prompts'[k] = prompts[k]
      ]_vars

C9_Witness ==
    /\ pc = "serving"
    /\ RegistryFull
    /\ BagCardinality(calls) = MaxCalls
    /\ \A c \in BagToSet(calls) : c.st = "done"

====
